---- MODULE Spec2Model ----
(***************************************************************************)
(* Side Quest backend (src/server.js): the card handlers POST /cards,      *)
(* DELETE /cards/:id and DELETE /cards/cleanup/expired, the helpers        *)
(* uploadImage and urlToStoragePath, and the record store (table "cards")  *)
(* and object store (bucket "side-quest-images") they act on.              *)
(*                                                                         *)
(* A JavaScript string is a tuple of one-character strings, so indexOf and *)
(* substring are computed on characters.  undefined and null are the       *)
(* one-element tuples Undefined and Null, which are no strings.            *)
(*                                                                         *)
(* Every awaited call on the Supabase client settles in one of three ways: *)
(* "ok" (performed, {error: null}), "error" (not performed, reported in    *)
(* the returned {error}) or "throw" (not performed, the promise rejects).  *)
(* A handler runs from one await to the next as one step.  Requests are    *)
(* taken one at a time: a request arrives once the one before it has been  *)
(* answered, so the steps of two handlers are not interleaved.             *)
(***************************************************************************)
EXTENDS Integers, Sequences, FiniteSets, TLC

\* ------------------------------------------------------------------ bounds
MaxSubmits == 2      \* POST /cards requests accepted in one behaviour
MaxPieces == 3       \* pieces a string given to urlToStoragePath is made of
OverLimit == 11      \* product images in the request that exceeds multer's maxCount

\* ----------------------------------------------------------------- strings
Undefined == <<"undefined">>
Null == <<"null">>

marker == <<"/", "s", "i", "d", "e", "-", "q", "u", "e", "s", "t", "-", "i", "m", "a", "g", "e", "s", "/">>
Bucket == <<"s", "i", "d", "e", "-", "q", "u", "e", "s", "t", "-", "i", "m", "a", "g", "e", "s">>
SupabaseUrl == <<"h", "t", "t", "p", "s", ":", "/", "/", "p", ".", "s", "u", "p", "a", "b", "a", "s", "e", ".", "c", "o">>
PublicObjectPath == <<"/", "s", "t", "o", "r", "a", "g", "e", "/", "v", "1", "/", "o", "b", "j", "e", "c", "t", "/", "p", "u", "b", "l", "i", "c", "/">>

Acme == <<"A", "c", "m", "e">>
Jo == <<"J", "o">>
GreatStuff == <<"G", "r", "e", "a", "t", " ", "s", "t", "u", "f", "f">>
AIo == <<"a", ".", "i", "o">>
Blank == <<" ">>

Digit == <<"0", "1", "2", "3", "4", "5", "6", "7", "8", "9">>

RECURSIVE DecStr(_)
DecStr(n) == IF n < 10 THEN <<Digit[n + 1]>> ELSE DecStr(n \div 10) \o <<Digit[(n % 10) + 1]>>

Range(s) == {s[i] : i \in 1..Len(s)}

\* String.prototype.indexOf: the 0-based position of the first occurrence, or -1
Occurrences(s, m) == {i \in 1..(Len(s) - Len(m) + 1) : SubSeq(s, i, i + Len(m) - 1) = m}
IndexOf(s, m) ==
    IF Occurrences(s, m) = {} THEN -1
    ELSE (CHOOSE i \in Occurrences(s, m) : \A j \in Occurrences(s, m) : i <= j) - 1
LastIndexOf(s, m) ==
    IF Occurrences(s, m) = {} THEN -1
    ELSE (CHOOSE i \in Occurrences(s, m) : \A j \in Occurrences(s, m) : i >= j) - 1
\* String.prototype.substring(start): the characters from 0-based start on
Substring(s, start) == SubSeq(s, start + 1, Len(s))

\* JavaScript truthiness of a value that is a string, undefined or null
Truthy(v) == v # Undefined /\ v # Null /\ v # <<>>

\* ------------------------------------------------------------ pure helpers
urlToStoragePath_LastMarker(url) ==
    LET idx == LastIndexOf(url, marker)
    IN  IF idx # -1 THEN Substring(url, idx + Len(marker)) ELSE url

urlToStoragePath(url) ==
    LET idx == IndexOf(url, marker)
    IN  IF idx # -1 THEN Substring(url, idx + Len(marker)) ELSE url

\* supabase.storage.from('side-quest-images').getPublicUrl(filename).data.publicUrl
buildPublicUrl(filename) == SupabaseUrl \o PublicObjectPath \o Bucket \o <<"/">> \o filename

\* ------------------------------------------------------------------- multer
CoverMaxCount == 1
ProductMaxCount_Eleven == 10 + 1
ProductMaxCount == 10

ToLowerCase(mimetype) == IF mimetype = "IMAGE/PNG" THEN "image/png" ELSE mimetype
allowed == {"image/jpeg", "image/jpg", "image/png"}
fileFilter(file) == ToLowerCase(file) \in allowed

\* upload.fields([...]): every file passes fileFilter and no field exceeds its maxCount
MulterAccepts(coverImage, productImages) ==
    /\ Len(coverImage) <= CoverMaxCount
    /\ Len(productImages) <= ProductMaxCount
    /\ \A i \in 1..Len(coverImage) : fileFilter(coverImage[i])
    /\ \A i \in 1..Len(productImages) : fileFilter(productImages[i])

\* ------------------------------------------------------------ request input
Body(b, e, w, d) == [businessName |-> b, employeeName |-> e, webpageUrl |-> w, description |-> d]
BaseBody == Body(Acme, Jo, Undefined, GreatStuff)
Bodies ==
    { BaseBody,
      Body(Acme, Jo, <<>>, GreatStuff),
      Body(Acme, Jo, AIo, GreatStuff),
      Body(Blank, Jo, Undefined, GreatStuff),
      Body(Undefined, Jo, Undefined, GreatStuff),
      Body(Acme, <<>>, AIo, GreatStuff),
      Body(Acme, Jo, Undefined, Undefined) }

Files(c, p) == [coverImage |-> c, productImages |-> p]
NoFiles == Files(<<>>, <<>>)
SomeFiles == Files(<<"image/png">>, <<"image/jpeg", "image/png">>)
FileSets ==
    { NoFiles,
      SomeFiles,
      Files(<<>>, <<"IMAGE/PNG">>),
      Files(<<"image/gif">>, <<>>),
      Files(<<>>, [i \in 1..OverLimit |-> "image/png"]) }

\* the requests POST /cards is given: every body without files, the base body with every
\* set of files, and every body the validation rejects with files attached
SubmitInputs ==
    {[body |-> b, files |-> NoFiles] : b \in Bodies}
        \cup {[body |-> BaseBody, files |-> f] : f \in FileSets}
        \cup {[body |-> b, files |-> SomeFiles] :
                  b \in {c \in Bodies : \E k \in {"businessName", "employeeName", "description"} :
                                            c[k] \in {Undefined, <<>>}}}

Outcomes == {"ok", "error", "throw"}

\* -------------------------------------------------------------------- state
VARIABLES
    cards,      \* the rows of table "cards"
    objects,    \* the paths stored in bucket "side-quest-images"
    nextId,     \* the id the record store gives the next inserted row
    nextFile,   \* the time-and-random part of the next generated filename
    submits,    \* POST /cards requests received so far
    req,        \* per request slot: input, position, locals, calls made, response
    conv        \* a string taken through buildPublicUrl and urlToStoragePath

vars == <<cards, objects, nextId, nextFile, submits, req, conv>>

NullCard ==
    [id |-> 0, business_name |-> Null, employee_name |-> Null, webpage_url |-> Null,
     description |-> Null, cover_image_url |-> Null, product_image_urls |-> <<>>,
     expired |-> FALSE]

NoResponse == [status |-> 0, error |-> "", success |-> FALSE, deleted |-> 0, data |-> NullCard]

IdleReq ==
    [kind |-> "idle", pc |-> "idle", body |-> Body(Undefined, Undefined, Undefined, Undefined),
     files |-> NoFiles, id |-> 0,
     coverImageUrl |-> Null, productImageUrls |-> <<>>,
     card |-> NullCard, expired |-> <<>>, i |-> 1, imagesToDelete |-> <<>>, deletedCount |-> 0,
     calls |-> <<>>, res |-> NoResponse]

Call(op, id, paths, outcome) == [op |-> op, id |-> id, paths |-> paths, outcome |-> outcome]

\* res.status(s).json({error: message}), the handler's last step
Fail(r, s, message) ==
    [r EXCEPT !.pc = "done", !.res = [NoResponse EXCEPT !.status = s, !.error = message]]

\* the request slots; requests are taken one at a time
Reqs == {1}

ConvOff == [mode |-> "off", f |-> <<>>, u |-> <<>>, outs |-> <<>>]

Init ==
    /\ cards = {}
    /\ objects = {}
    /\ nextId = 1
    /\ nextFile = 1
    /\ submits = 0
    /\ req = [r \in Reqs |-> IdleReq]
    /\ conv = ConvOff

\* the slot has no request, or has answered its last one
Free(r) == req[r].pc \in {"idle", "done"}

\* ------------------------------------------------------------- POST /cards
\* the negation of: !businessName || !employeeName || !description
RequiredFieldsPresent(body) ==
    /\ Truthy(body.businessName)
    /\ Truthy(body.employeeName)
    /\ Truthy(body.description)

\* where the handler waits next, given the uploads it has made
AfterUploads(q) ==
    IF Len(q.productImageUrls) < Len(q.files.productImages) THEN "uploadProduct" ELSE "insert"

SubmitRequest(r) ==
    /\ Free(r)
    /\ submits < MaxSubmits
    /\ submits' = submits + 1
    /\ \E in \in SubmitInputs :
        LET q == [IdleReq EXCEPT !.kind = "submit", !.body = in.body, !.files = in.files]
        IN  req' = [req EXCEPT ![r] =
                IF ~MulterAccepts(in.files.coverImage, in.files.productImages)
                THEN Fail(q, 500, "multer")
                ELSE IF ~RequiredFieldsPresent(in.body)
                THEN Fail(q, 400, "businessName, employeeName, and description are required")
                ELSE IF Len(in.files.coverImage) > 0
                THEN [q EXCEPT !.pc = "uploadCover"]
                ELSE [q EXCEPT !.pc = AfterUploads(q)]]
    /\ UNCHANGED <<cards, objects, nextId, nextFile, conv>>

Ext(mimetype) == IF mimetype = "image/png" THEN <<"p", "n", "g">> ELSE <<"j", "p", "g">>
\* `${Date.now()}-${Math.random().toString(36).substring(2, 9)}.${ext}`: nextFile stands
\* for the time and random parts, which differ from one upload to the next
Filename(n, mimetype) == DecStr(n) \o <<"-", "r", ".">> \o Ext(mimetype)

UploadThrows_OnlyRejection(outcome) == outcome = "throw"

\* uploadImage throws: if (error) throw error, or the awaited upload rejects
UploadThrows(outcome) == outcome # "ok"

\* uploadImage(file) with its upload settling as outcome: the effect on the bucket.  A name
\* whose upload failed was never stored, so the next upload may be given it again.
uploadImage(file, outcome) ==
    /\ objects' = IF outcome = "ok" THEN objects \cup {Filename(nextFile, file)} ELSE objects
    /\ nextFile' = IF outcome = "ok" THEN nextFile + 1 ELSE nextFile

\* what uploadImage(file) returns when it does not throw
uploadImageUrl(file) == buildPublicUrl(Filename(nextFile, file))

UploadCover(r) ==
    /\ req[r].pc = "uploadCover"
    /\ \E outcome \in Outcomes :
        LET file == req[r].files.coverImage[1]
            q == [req[r] EXCEPT !.calls = Append(@, Call("upload", 0, <<Filename(nextFile, file)>>, outcome))]
        IN  /\ uploadImage(file, outcome)
            /\ req' = [req EXCEPT ![r] =
                          IF UploadThrows(outcome)
                          THEN Fail(q, 500, "upload failed")
                          ELSE LET q2 == [q EXCEPT !.coverImageUrl = uploadImageUrl(file)]
                               IN  [q2 EXCEPT !.pc = AfterUploads(q2)]]
    /\ UNCHANGED <<cards, nextId, submits, conv>>

UploadProduct(r) ==
    /\ req[r].pc = "uploadProduct"
    /\ \E outcome \in Outcomes :
        LET file == req[r].files.productImages[Len(req[r].productImageUrls) + 1]
            q == [req[r] EXCEPT !.calls = Append(@, Call("upload", 0, <<Filename(nextFile, file)>>, outcome))]
        IN  /\ uploadImage(file, outcome)
            /\ req' = [req EXCEPT ![r] =
                          IF UploadThrows(outcome)
                          THEN Fail(q, 500, "upload failed")
                          ELSE LET q2 == [q EXCEPT !.productImageUrls = Append(@, uploadImageUrl(file))]
                               IN  [q2 EXCEPT !.pc = AfterUploads(q2)]]
    /\ UNCHANGED <<cards, nextId, submits, conv>>

CardDraft_SwappedNames(body, coverImageUrl, productImageUrls) ==
    [business_name |-> body.employeeName,
     employee_name |-> body.businessName,
     webpage_url |-> IF Truthy(body.webpageUrl) THEN body.webpageUrl ELSE Null,
     description |-> body.description,
     cover_image_url |-> coverImageUrl,
     product_image_urls |-> productImageUrls]

\* the row handed to insert([...])
CardDraft(body, coverImageUrl, productImageUrls) ==
    [business_name |-> body.businessName,
     employee_name |-> body.employeeName,
     webpage_url |-> IF Truthy(body.webpageUrl) THEN body.webpageUrl ELSE Null,
     description |-> body.description,
     cover_image_url |-> coverImageUrl,
     product_image_urls |-> productImageUrls]

\* the stored row: the draft, plus the id and the expiry the record store assigns
StoredRow(draft, id) ==
    [id |-> id, business_name |-> draft.business_name, employee_name |-> draft.employee_name,
     webpage_url |-> draft.webpage_url, description |-> draft.description,
     cover_image_url |-> draft.cover_image_url, product_image_urls |-> draft.product_image_urls,
     expired |-> FALSE]

InsertCard(r) ==
    /\ req[r].pc = "insert"
    /\ \E outcome \in Outcomes :
        LET row == StoredRow(CardDraft(req[r].body, req[r].coverImageUrl, req[r].productImageUrls), nextId)
            q == [req[r] EXCEPT !.calls = Append(@, Call("insert", nextId, <<>>, outcome))]
        IN  /\ cards' = IF outcome = "ok" THEN cards \cup {row} ELSE cards
            /\ nextId' = IF outcome = "ok" THEN nextId + 1 ELSE nextId
            /\ req' = [req EXCEPT ![r] =
                          IF outcome # "ok"
                          THEN Fail(q, 500, "insert failed")
                          ELSE [q EXCEPT !.pc = "done",
                                         !.res = [NoResponse EXCEPT !.status = 201, !.data = row]]]
    /\ UNCHANGED <<objects, nextFile, submits, conv>>

\* ------------------------------------------------------- DELETE /cards/:id
CardIds == 1..(MaxSubmits + 1)

\* imagesToDelete as both delete handlers build it: the cover's path, then every product image's
imagesToDelete(card) ==
    (IF Truthy(card.cover_image_url) THEN <<urlToStoragePath(card.cover_image_url)>> ELSE <<>>)
        \o [i \in 1..Len(card.product_image_urls) |-> urlToStoragePath(card.product_image_urls[i])]

DeleteOneRequest(r) ==
    /\ Free(r)
    /\ \E id \in CardIds :
        req' = [req EXCEPT ![r] = [IdleReq EXCEPT !.kind = "deleteOne", !.id = id, !.pc = "select"]]
    /\ UNCHANGED <<cards, objects, nextId, nextFile, submits, conv>>

\* select('*').eq('id', id).single(): anything but exactly one row is reported as an error
SelectSingle(id, outcome) ==
    LET rows == {c \in cards : c.id = id}
    IN  IF outcome = "ok" /\ Cardinality(rows) = 1
        THEN [data |-> CHOOSE c \in rows : TRUE, error |-> FALSE]
        ELSE [data |-> NullCard, error |-> TRUE]

SelectCard(r) ==
    /\ req[r].pc = "select"
    /\ \E outcome \in Outcomes :
        LET got == SelectSingle(req[r].id, outcome)
            q == [req[r] EXCEPT !.calls = Append(@, Call("select", req[r].id, <<>>, outcome))]
        IN  req' = [req EXCEPT ![r] =
                IF outcome = "throw" \/ got.error
                THEN Fail(q, 500, "Failed to delete card")
                ELSE IF got.data = NullCard
                THEN Fail(q, 404, "Card not found")
                ELSE [q EXCEPT !.card = got.data,
                               !.imagesToDelete = imagesToDelete(got.data),
                               !.pc = IF Len(imagesToDelete(got.data)) > 0 THEN "remove" ELSE "delete"]]
    /\ UNCHANGED <<cards, objects, nextId, nextFile, submits, conv>>

\* storage.from('side-quest-images').remove(paths) settling as outcome
StorageRemove(paths, outcome) ==
    objects' = IF outcome = "ok" THEN objects \ Range(paths) ELSE objects

\* from('cards').delete().eq('id', id) settling as outcome
RowDelete(id, outcome) ==
    cards' = IF outcome = "ok" THEN {c \in cards : c.id # id} ELSE cards

RemoveImages(r) ==
    /\ req[r].pc = "remove"
    /\ \E outcome \in Outcomes :
        LET q == [req[r] EXCEPT !.calls = Append(@, Call("remove", req[r].id, req[r].imagesToDelete, outcome))]
        IN  /\ StorageRemove(req[r].imagesToDelete, outcome)
            /\ req' = [req EXCEPT ![r] =
                          IF outcome = "throw"
                          THEN Fail(q, 500, "Failed to delete card")
                          ELSE [q EXCEPT !.pc = "delete"]]
    /\ UNCHANGED <<cards, nextId, nextFile, submits, conv>>

DeleteRow(r) ==
    /\ req[r].pc = "delete"
    /\ \E outcome \in Outcomes :
        LET q == [req[r] EXCEPT !.calls = Append(@, Call("delete", req[r].id, <<>>, outcome))]
        IN  /\ RowDelete(req[r].id, outcome)
            /\ req' = [req EXCEPT ![r] =
                          IF outcome # "ok"
                          THEN Fail(q, 500, "Failed to delete card")
                          ELSE [q EXCEPT !.pc = "done",
                                         !.res = [NoResponse EXCEPT !.status = 200, !.success = TRUE]]]
    /\ UNCHANGED <<objects, nextId, nextFile, submits, conv>>

\* ------------------------------------------- DELETE /cards/cleanup/expired
\* every order in which the record store can return the rows of a set
Orderings(S) ==
    {s \in [1..Cardinality(S) -> S] : \A i, j \in 1..Cardinality(S) : i # j => s[i] # s[j]}

CleanupLoop_StopsOneEarly(q) ==
    IF q.i >= Len(q.expired)
    THEN [q EXCEPT !.pc = "done",
                   !.res = [NoResponse EXCEPT !.status = 200, !.success = TRUE,
                                              !.deleted = q.deletedCount]]
    ELSE LET card == q.expired[q.i]
         IN  [q EXCEPT !.card = card,
                       !.imagesToDelete = imagesToDelete(card),
                       !.pc = IF Len(imagesToDelete(card)) > 0 THEN "cleanupRemove" ELSE "cleanupDelete"]

\* the handler at the top of  for (const card of expired)  with its locals in q: the i-th
\* card's imagesToDelete and the next await, or the response once the list is exhausted
CleanupLoop(q) ==
    IF q.i > Len(q.expired)
    THEN [q EXCEPT !.pc = "done",
                   !.res = [NoResponse EXCEPT !.status = 200, !.success = TRUE,
                                              !.deleted = q.deletedCount]]
    ELSE LET card == q.expired[q.i]
         IN  [q EXCEPT !.card = card,
                       !.imagesToDelete = imagesToDelete(card),
                       !.pc = IF Len(imagesToDelete(card)) > 0 THEN "cleanupRemove" ELSE "cleanupDelete"]

CleanupRequest(r) ==
    /\ Free(r)
    /\ req' = [req EXCEPT ![r] = [IdleReq EXCEPT !.kind = "cleanup", !.pc = "selectExpired"]]
    /\ UNCHANGED <<cards, objects, nextId, nextFile, submits, conv>>

SelectExpired(r) ==
    /\ req[r].pc = "selectExpired"
    /\ \E outcome \in Outcomes :
        LET q == [req[r] EXCEPT !.calls = Append(@, Call("selectExpired", 0, <<>>, outcome))]
        IN  IF outcome # "ok"
            THEN req' = [req EXCEPT ![r] = Fail(q, 500, "Cleanup failed")]
            ELSE \E expired \in Orderings({c \in cards : c.expired}) :
                    req' = [req EXCEPT ![r] = CleanupLoop([q EXCEPT !.expired = expired])]
    /\ UNCHANGED <<cards, objects, nextId, nextFile, submits, conv>>

CleanupRemove(r) ==
    /\ req[r].pc = "cleanupRemove"
    /\ \E outcome \in Outcomes :
        LET q == [req[r] EXCEPT !.calls = Append(@, Call("remove", req[r].card.id, req[r].imagesToDelete, outcome))]
        IN  /\ StorageRemove(req[r].imagesToDelete, outcome)
            /\ req' = [req EXCEPT ![r] =
                          IF outcome = "throw"
                          THEN Fail(q, 500, "Cleanup failed")
                          ELSE [q EXCEPT !.pc = "cleanupDelete"]]
    /\ UNCHANGED <<cards, nextId, nextFile, submits, conv>>

CleanupDelete(r) ==
    /\ req[r].pc = "cleanupDelete"
    /\ \E outcome \in Outcomes :
        LET q == [req[r] EXCEPT !.calls = Append(@, Call("delete", req[r].card.id, <<>>, outcome))]
        IN  /\ RowDelete(req[r].card.id, outcome)
            /\ req' = [req EXCEPT ![r] =
                          IF outcome = "throw"
                          THEN Fail(q, 500, "Cleanup failed")
                          ELSE CleanupLoop([q EXCEPT !.deletedCount = @ + 1, !.i = @ + 1])]
    /\ UNCHANGED <<objects, nextId, nextFile, submits, conv>>

\* ------------------------------------------------------------- environment
\* the clock passes a card's expires_at
ExpireCard ==
    /\ \E c \in cards :
        /\ ~c.expired
        /\ cards' = (cards \ {c}) \cup {[c EXCEPT !.expired = TRUE]}
    /\ UNCHANGED <<objects, nextId, nextFile, submits, req, conv>>

Next ==
    \/ \E r \in Reqs : SubmitRequest(r)
    \/ \E r \in Reqs : UploadCover(r)
    \/ \E r \in Reqs : UploadProduct(r)
    \/ \E r \in Reqs : InsertCard(r)
    \/ \E r \in Reqs : DeleteOneRequest(r)
    \/ \E r \in Reqs : SelectCard(r)
    \/ \E r \in Reqs : RemoveImages(r)
    \/ \E r \in Reqs : DeleteRow(r)
    \/ \E r \in Reqs : CleanupRequest(r)
    \/ \E r \in Reqs : SelectExpired(r)
    \/ \E r \in Reqs : CleanupRemove(r)
    \/ \E r \in Reqs : CleanupDelete(r)
    \/ ExpireCard

Spec == Init /\ [][Next]_vars

\* ------------------------------------------------------------------ claims
Whitespace == {" ", "\t", "\n", "\r"}
\* missing, empty, or whitespace-only
IsBlank(v) == v \in {Undefined, Null} \/ \A i \in 1..Len(v) : v[i] \in Whitespace
RequiredFields == {"businessName", "employeeName", "description"}
HasBlankField(q) == \E k \in RequiredFields : IsBlank(q.body[k])
ReachedHandler(q) == MulterAccepts(q.files.coverImage, q.files.productImages)
NoFilesAttached(q) == q.files.coverImage = <<>> /\ q.files.productImages = <<>>

CallsOf(q, op) == {i \in 1..Len(q.calls) : q.calls[i].op = op}
AllOk(q) == \A i \in 1..Len(q.calls) : q.calls[i].outcome = "ok"
\* the path of a public URL of the bucket, read off the URL's fixed length prefix
PathOf(url) == SubSeq(url, Len(SupabaseUrl) + Len(PublicObjectPath) + Len(Bucket) + 2, Len(url))
ImagesOf(card) ==
    (IF card.cover_image_url = Null THEN <<>> ELSE <<PathOf(card.cover_image_url)>>)
        \o [i \in 1..Len(card.product_image_urls) |-> PathOf(card.product_image_urls[i])]
HasRow(id) == \E c \in cards : c.id = id
IsPrefix(s, t) == Len(s) <= Len(t) /\ SubSeq(t, 1, Len(s)) = s

\* C1: a Submit whose businessName, employeeName or description is missing, empty or
\* whitespace-only is answered 400 and makes no upload and no insert, whatever its files
\* (no call of the request failing).
C1_BlankFieldRejected ==
    \A r \in Reqs :
        LET q == req[r]
        IN  (q.kind = "submit" /\ ReachedHandler(q) /\ HasBlankField(q) /\ AllOk(q)) =>
                /\ q.calls = <<>>
                /\ q.pc = "done" => q.res.status = 400

\* C2: DeleteOne on an id with no row answers 404 {error: "Card not found"} and makes no
\* object-store delete and no row delete.
C2_MissingCardIs404 ==
    \A r \in Reqs :
        LET q == req[r]
        IN  (/\ q.kind = "deleteOne"
             /\ q.pc = "done"
             /\ ~HasRow(q.id)
             /\ Len(q.calls) = 1
             /\ q.calls[1].outcome = "ok") =>
                /\ q.res.status = 404
                /\ q.res.error = "Card not found"
                /\ CallsOf(q, "remove") = {}
                /\ CallsOf(q, "delete") = {}

\* C3: DeleteOne on a card with N >= 1 images makes exactly one batch delete listing all N
\* paths, deletes the row only after that call succeeded, and when the batch delete fails
\* answers with an error and leaves the row in place.
C3_RowDeletedOnlyAfterImagesDeleted ==
    \A r \in Reqs :
        LET q == req[r]
        IN  (q.kind = "deleteOne" /\ q.card # NullCard /\ Len(ImagesOf(q.card)) >= 1) =>
                /\ Cardinality(CallsOf(q, "remove")) = (IF q.pc = "remove" THEN 0 ELSE 1)
                /\ \A i \in CallsOf(q, "remove") : q.calls[i].paths = ImagesOf(q.card)
                /\ \A i \in CallsOf(q, "delete") :
                       q.calls[i].outcome = "ok" =>
                           \E j \in CallsOf(q, "remove") : j < i /\ q.calls[j].outcome = "ok"
                /\ \A j \in CallsOf(q, "remove") :
                       q.calls[j].outcome # "ok" =>
                           /\ HasRow(q.id)
                           /\ q.pc = "done" => q.res.status >= 400

\* C4: Submit inserts the record only after the cover upload and every product-image
\* upload of the request succeeded; when an upload fails the request ends with an error,
\* no row is inserted, and the images uploaded before it stay in the object store.
C4_InsertOnlyAfterAllUploads ==
    \A r \in Reqs :
        LET q == req[r]
            nFiles == Len(q.files.coverImage) + Len(q.files.productImages)
        IN  q.kind = "submit" =>
                /\ \A i \in CallsOf(q, "insert") :
                       /\ i = nFiles + 1
                       /\ \A j \in 1..(i - 1) : q.calls[j].op = "upload" /\ q.calls[j].outcome = "ok"
                /\ \A i \in CallsOf(q, "upload") :
                       q.calls[i].outcome # "ok" =>
                           /\ i = Len(q.calls)
                           /\ q.pc = "done"
                           /\ q.res.status = 500
                           /\ \A c \in cards : \A j \in 1..(i - 1) :
                                  q.calls[j].paths[1] \notin Range(ImagesOf(c))
                           /\ \A j \in 1..(i - 1) : q.calls[j].paths[1] \in objects
                /\ (q.pc = "done" /\ q.res.status = 201) =>
                       /\ HasRow(q.res.data.id)
                       /\ Len(ImagesOf(q.res.data)) = nFiles
                       /\ \A j \in 1..nFiles : ImagesOf(q.res.data)[j] = q.calls[j].paths[1]
                       /\ Range(ImagesOf(q.res.data)) \subseteq objects

C4_Witness ==
    \E r \in Reqs :
        LET q == req[r]
        IN  /\ q.kind = "submit"
            /\ q.pc = "done"
            /\ Len(q.calls) = 3
            /\ q.calls[1].outcome = "ok"
            /\ q.calls[2].outcome = "ok"
            /\ q.calls[3].op = "upload"
            /\ q.calls[3].outcome = "error"
            /\ q.res.status = 500
            /\ {q.calls[1].paths[1], q.calls[2].paths[1]} \subseteq objects
            /\ cards = {}

\* the calls CleanupExpired makes for the cards of a list, in the list's order: per card
\* its batch delete (if it has images), then its row delete
RECURSIVE ExpectedCleanupCalls(_)
ExpectedCleanupCalls(expired) ==
    IF expired = <<>> THEN <<>>
    ELSE LET card == Head(expired)
         IN  (IF ImagesOf(card) = <<>> THEN <<>>
              ELSE <<Call("remove", card.id, ImagesOf(card), "ok")>>)
                 \o <<Call("delete", card.id, <<>>, "ok")>>
                 \o ExpectedCleanupCalls(Tail(expired))

\* C5: CleanupExpired over K expired cards, when every image delete and row delete
\* succeeds, answers 200 with deleted = K, has removed all K rows (and their images), and
\* handles the cards in the order listExpired returned them, one card's image delete and
\* row delete before the next card's.
C5_CleanupDeletesAllInOrder ==
    \A r \in Reqs :
        LET q == req[r]
            expected == <<Call("selectExpired", 0, <<>>, "ok")>> \o ExpectedCleanupCalls(q.expired)
        IN  (q.kind = "cleanup" /\ q.calls # <<>> /\ AllOk(q)) =>
                /\ IsPrefix(q.calls, expected)
                /\ q.pc = "done" =>
                       /\ q.calls = expected
                       /\ q.res.status = 200
                       /\ q.res.success
                       /\ q.res.deleted = Len(q.expired)
                       /\ \A i \in 1..Len(q.expired) :
                              /\ ~HasRow(q.expired[i].id)
                              /\ Range(ImagesOf(q.expired[i])) \cap objects = {}

C5_Witness ==
    \E r \in Reqs :
        LET q == req[r]
        IN  /\ q.kind = "cleanup"
            /\ q.pc = "done"
            /\ AllOk(q)
            /\ Len(q.expired) = 2
            /\ q.expired[1].id > q.expired[2].id
            /\ Len(ImagesOf(q.expired[1])) = 3
            /\ q.res.status = 200
            /\ q.res.deleted = 2
            /\ cards = {}

\* C7: a Submit carrying more than 10 product images is rejected before any upload: it
\* makes no upload and no insert.
C7_TooManyProductImagesRejected ==
    \A r \in Reqs :
        LET q == req[r]
        IN  (q.kind = "submit" /\ Len(q.files.productImages) > 10) =>
                /\ q.calls = <<>>
                /\ q.pc = "done"
                /\ q.res.status >= 400
                /\ q.res.data = NullCard

C7_Witness ==
    \E r \in Reqs :
        LET q == req[r]
        IN  /\ q.kind = "submit"
            /\ Len(q.files.productImages) = OverLimit
            /\ q.pc = "done"
            /\ q.res.status = 500
            /\ cards = {}
            /\ objects = {}

\* the created card echoes the body; submitted is how webpageUrl is to be echoed
EchoesBody(q, submitted) ==
    /\ q.res.data.business_name = q.body.businessName
    /\ q.res.data.employee_name = q.body.employeeName
    /\ q.res.data.description = q.body.description
    /\ q.res.data.webpage_url = submitted
    /\ q.res.data.cover_image_url = Null
    /\ q.res.data.product_image_urls = <<>>

\* C8 as stated: a valid Submit with no cover and no product images makes one insert and
\* no upload, is answered 201, and the created card has coverImageUrl null,
\* productImageUrls empty and businessName, employeeName, webpageUrl and description equal
\* to the submitted values exactly (an absent webpageUrl being null), the insert succeeding.
C8_EchoesInputExactly ==
    \A r \in Reqs :
        LET q == req[r]
        IN  (/\ q.kind = "submit"
             /\ ReachedHandler(q)
             /\ ~HasBlankField(q)
             /\ NoFilesAttached(q)
             /\ q.pc = "done"
             /\ AllOk(q)) =>
                /\ CallsOf(q, "upload") = {}
                /\ Cardinality(CallsOf(q, "insert")) = 1
                /\ q.res.status = 201
                /\ EchoesBody(q, IF q.body.webpageUrl = Undefined THEN Null ELSE q.body.webpageUrl)

\* C8 amended: a valid Submit with no cover and no product images makes no upload and
\* exactly one insert; when the insert succeeds it is answered 201 and the created card has
\* coverImageUrl null, productImageUrls empty, businessName, employeeName and description
\* equal to the submitted values, and webpageUrl equal to the submitted value, or null
\* when the submitted webpageUrl is missing or the empty string.
C8_EchoesInputWithNullForEmptyUrl ==
    \A r \in Reqs :
        LET q == req[r]
        IN  (/\ q.kind = "submit"
             /\ ReachedHandler(q)
             /\ ~HasBlankField(q)
             /\ NoFilesAttached(q)) =>
                /\ CallsOf(q, "upload") = {}
                /\ q.pc = "insert" => q.calls = <<>>
                /\ q.pc \in {"insert", "done"}
                /\ q.pc = "done" =>
                       /\ Len(q.calls) = 1
                       /\ q.calls[1].op = "insert"
                       /\ AllOk(q) =>
                              /\ q.res.status = 201
                              /\ HasRow(q.res.data.id)
                              /\ EchoesBody(q, IF q.body.webpageUrl \in {Undefined, <<>>}
                                               THEN Null ELSE q.body.webpageUrl)

C8_Witness ==
    \E r \in Reqs :
        LET q == req[r]
        IN  /\ q.kind = "submit"
            /\ q.body = Body(Acme, Jo, <<>>, GreatStuff)
            /\ NoFilesAttached(q)
            /\ q.pc = "done"
            /\ q.res.status = 201
            /\ q.res.data.webpage_url = Null
            /\ q.res.data.business_name = Acme
            /\ HasRow(q.res.data.id)

OnlyFailure(q, i) == \A j \in 1..Len(q.calls) : j # i => q.calls[j].outcome = "ok"

\* C9: in CleanupExpired a failed object-store delete for one card halts the batch: that
\* card's row is not deleted, no later card is touched, and the request ends with a 500
\* (the failed delete being the request's only failed call).
C9_FailedImageDeleteHaltsCleanup ==
    \A r \in Reqs :
        LET q == req[r]
        IN  q.kind = "cleanup" =>
                \A i \in CallsOf(q, "remove") :
                    (q.calls[i].outcome # "ok" /\ OnlyFailure(q, i)) =>
                        /\ \A j \in (i + 1)..Len(q.calls) : q.calls[j].outcome # "ok"
                        /\ HasRow(q.calls[i].id)
                        /\ q.pc = "done" => q.res.status = 500

\* C10: when CleanupExpired answers 200 {success: true, deleted: N}, that request removed
\* exactly N rows and none of the expired cards it fetched remains; N never exceeds the
\* number of rows actually deleted.
C10_DeletedCountIsRowsDeleted ==
    \A r \in Reqs :
        LET q == req[r]
        IN  (q.kind = "cleanup" /\ q.pc = "done" /\ q.res.status = 200) =>
                /\ q.res.deleted = Cardinality({i \in CallsOf(q, "delete") : q.calls[i].outcome = "ok"})
                /\ \A i \in 1..Len(q.expired) : ~HasRow(q.expired[i].id)

\* ------------------------------------------- urlToStoragePath on any string
Pieces ==
    { marker,
      Bucket \o <<"/">>,
      <<"/">>,
      <<"a">>,
      SupabaseUrl \o <<"/", "s", "t", "o", "r", "a", "g", "e">> }

RECURSIVE Concats(_)
Concats(n) == IF n = 0 THEN {<<>>} ELSE Concats(n - 1) \cup {s \o p : s \in Concats(n - 1), p \in Pieces}

Strings == Concats(MaxPieces)

InitUrl ==
    /\ cards = {}
    /\ objects = {}
    /\ nextId = 1
    /\ nextFile = 1
    /\ submits = 0
    /\ req = [r \in Reqs |-> IdleReq]
    /\ conv \in {[mode |-> "raw", f |-> <<>>, u |-> s, outs |-> <<>>] : s \in Strings}

\* the string is taken as a filename and made a public URL
BuildPublicUrlStep ==
    /\ conv.mode = "raw"
    /\ conv.outs = <<>>
    /\ conv' = [conv EXCEPT !.mode = "built", !.f = conv.u, !.u = buildPublicUrl(conv.u)]
    /\ UNCHANGED <<cards, objects, nextId, nextFile, submits, req>>

\* urlToStoragePath is applied to the string, then to its own result
UrlToStoragePathStep ==
    /\ conv.mode \in {"raw", "built"}
    /\ Len(conv.outs) < 2
    /\ conv' = [conv EXCEPT !.outs =
                   Append(@, urlToStoragePath(IF @ = <<>> THEN conv.u ELSE @[Len(@)]))]
    /\ UNCHANGED <<cards, objects, nextId, nextFile, submits, req>>

NextUrl == BuildPublicUrlStep \/ UrlToStoragePathStep

SpecUrl == InitUrl /\ [][NextUrl]_vars

MarkerCount(u) == Cardinality(Occurrences(u, marker))

\* C6 as stated: urlToStoragePath(urlToStoragePath(u)) = urlToStoragePath(u) for every
\* string u, and urlToStoragePath(buildPublicUrl(F)) = F for every filename F.
C6_IdempotentAndLeftInverse ==
    /\ Len(conv.outs) = 2 => conv.outs[2] = conv.outs[1]
    /\ (conv.mode = "built" /\ Len(conv.outs) >= 1) => conv.outs[1] = conv.f

\* C6 amended: urlToStoragePath(buildPublicUrl(F)) = F for every filename F, and
\* urlToStoragePath(urlToStoragePath(u)) = urlToStoragePath(u) for every string u in which
\* the marker occurs at most once.
C6_LeftInverseAndIdempotentOnOneMarker ==
    /\ (Len(conv.outs) = 2 /\ MarkerCount(conv.u) <= 1) => conv.outs[2] = conv.outs[1]
    /\ (conv.mode = "built" /\ Len(conv.outs) >= 1) => conv.outs[1] = conv.f

C6_Witness ==
    /\ conv.mode = "built"
    /\ conv.f = <<"a">> \o Bucket \o <<"/">>
    /\ MarkerCount(conv.u) = 1
    /\ Len(conv.outs) = 2
    /\ conv.outs[1] = conv.f
    /\ conv.outs[2] = conv.f

====
